---- MODULE Spec2Model ----
(***************************************************************************)
(* Model of the /api/option-chain handler of src/app.py (get_option_chain) *)
(* : row extractor, ATM window filter, metrics and the response forms.     *)
(*                                                                         *)
(* Python dicts are modelled as functions whose DOMAIN is the set of keys  *)
(* that are present; a missing key is a key outside the DOMAIN.  Lists and *)
(* DataFrame columns are sequences; Python's 0-based indices are kept in   *)
(* the variables and converted where a sequence is indexed.                *)
(***************************************************************************)
EXTENDS Integers, Sequences, FiniteSets, TLC

VARIABLES pc, request_json, upstream, rows, filter_ran, unique_strikes,
          atm_index, start_idx, end_idx, filtered_strikes, df, response

vars == <<pc, request_json, upstream, rows, filter_ran, unique_strikes,
          atm_index, start_idx, end_idx, filtered_strikes, df, response>>

(***************************************************************************)
(* Bounds of the explored inputs.                                          *)
(***************************************************************************)
NumStrikeValues == 5
MaxN == 4
MaxShuffled == 3
MaxPlain == 2

StrikeValues == {100 + 50 * (i - 1) : i \in 1..NumStrikeValues}
SpotValues == {100, 125, 204, 275, 300}
NValues == (-1)..MaxN

(***************************************************************************)
(* Generic helpers: dict.get, abs, min, max, sorted, unique.               *)
(***************************************************************************)
EmptyDict == <<>>

\* data.get('strikes', 20)
DefaultStrikes == 20

Get(d, k, default) == IF k \in DOMAIN d THEN d[k] ELSE default

Truthy(d) == DOMAIN d # {}

Abs(x) == IF x < 0 THEN -x ELSE x

Min2(a, b) == IF a <= b THEN a ELSE b

Max2(a, b) == IF a >= b THEN a ELSE b

SetMin(S) == CHOOSE m \in S : \A x \in S : m <= x

RECURSIVE Sorted(_)
Sorted(S) == IF S = {} THEN <<>>
             ELSE LET m == SetMin(S) IN <<m>> \o Sorted(S \ {m})

Range(s) == {s[i] : i \in DOMAIN s}

RECURSIVE Unique(_)
Unique(s) == IF s = <<>> THEN <<>>
             ELSE LET init == Unique(SubSeq(s, 1, Len(s) - 1))
                      last == s[Len(s)]
                  IN IF last \in Range(init) THEN init ELSE Append(init, last)

Column(frame, name) == [i \in DOMAIN frame |-> frame[i][name]]

RECURSIVE SumSeq(_)
SumSeq(s) == IF s = <<>> THEN 0 ELSE s[1] + SumSeq(Tail(s))

\* list.index(x): 0-based position of the first occurrence
IndexOf(s, x) == (CHOOSE i \in DOMAIN s : s[i] = x /\ \A j \in 1..(i - 1) : s[j] # x) - 1

\* list[start:end] with 0 <= start, end <= len
Slice(s, start, end) == SubSeq(s, start + 1, end)

(***************************************************************************)
(* Row extractor (the loop over api_data['data']).                         *)
(***************************************************************************)
\* the test as "is present" instead of "is truthy"
HasMarketDataKey(item, side) ==
    /\ side \in DOMAIN item
    /\ "market_data" \in DOMAIN item[side]

\* item.get(side) and item[side].get('market_data'): both must be truthy
HasMarketData(item, side) ==
    /\ side \in DOMAIN item
    /\ Truthy(item[side])
    /\ "market_data" \in DOMAIN item[side]
    /\ Truthy(item[side]["market_data"])

\* 'oi' read from the 'ltp' key
RowOiFromLtp(strike, type, market_data, spot) ==
    [strike |-> strike, type |-> type,
     oi |-> Get(market_data, "ltp", 0), ltp |-> Get(market_data, "ltp", 0),
     underlying |-> spot]

\* the dict appended for one populated side
Row(strike, type, market_data, spot) ==
    [strike |-> strike, type |-> type,
     oi |-> Get(market_data, "oi", 0), ltp |-> Get(market_data, "ltp", 0),
     underlying |-> spot]

\* item['strike_price'] and item['underlying_spot_price'] are subscripts,
\* which raise KeyError on a missing key; "" means no exception
ItemKeyError(item) ==
    IF "strike_price" \notin DOMAIN item THEN "'strike_price'"
    ELSE IF "underlying_spot_price" \notin DOMAIN item THEN "'underlying_spot_price'"
    ELSE ""

\* the rows one loop iteration appends (CE first, then PE)
ItemRows(item) ==
    LET strike == item["strike_price"]
        spot == item["underlying_spot_price"]
        ce == IF HasMarketData(item, "call_options")
              THEN <<Row(strike, "CE", item["call_options"]["market_data"], spot)>>
              ELSE <<>>
        pe == IF HasMarketData(item, "put_options")
              THEN <<Row(strike, "PE", item["put_options"]["market_data"], spot)>>
              ELSE <<>>
    IN ce \o pe

\* the whole loop: the first KeyError aborts it
RECURSIVE ExtractRows(_)
ExtractRows(data) ==
    IF data = <<>> THEN [error |-> "", rows |-> <<>>]
    ELSE LET before == ExtractRows(SubSeq(data, 1, Len(data) - 1))
             item == data[Len(data)]
         IN IF before.error # "" THEN before
            ELSE IF ItemKeyError(item) # ""
                 THEN [error |-> ItemKeyError(item), rows |-> <<>>]
                 ELSE [error |-> "", rows |-> before.rows \o ItemRows(item)]

(***************************************************************************)
(* ATM window filter.                                                      *)
(***************************************************************************)
\* min(seq, key=lambda x: abs(x - spot)): the first element with the least key
AtmStrike(strikes, spot) ==
    LET i == CHOOSE i \in DOMAIN strikes :
                 /\ \A j \in DOMAIN strikes : Abs(strikes[i] - spot) <= Abs(strikes[j] - spot)
                 /\ \A j \in 1..(i - 1) : Abs(strikes[j] - spot) > Abs(strikes[i] - spot)
    IN strikes[i]

\* the guard with >= for >
ShouldFilterFromZero(frame, num_strikes) == frame # <<>> /\ num_strikes >= 0

\* if not df.empty and num_strikes > 0
ShouldFilter(frame, num_strikes) == frame # <<>> /\ num_strikes > 0

StrikesEachSide(num_strikes) == num_strikes \div 2

InitialStart(idx, each_side) == Max2(0, idx - each_side)

\* the end index without its + 1
InitialEndInclusive(len, idx, each_side) == Min2(len, idx + each_side)

InitialEnd(len, idx, each_side) == Min2(len, idx + each_side + 1)

\* the left-edge correction with strikes_each_side for num_strikes
CorrectedEndEachSide(len, num_strikes) == Min2(len, num_strikes \div 2)

\* if start_idx == 0: end_idx = min(len(unique_strikes), num_strikes)
CorrectedEnd(len, num_strikes) == Min2(len, num_strikes)

\* the right-edge correction counting from the last index
CorrectedStartFromLast(len, num_strikes) == Max2(0, len - 1 - num_strikes)

\* elif end_idx == len(unique_strikes): start_idx = max(0, len - num_strikes)
CorrectedStart(len, num_strikes) == Max2(0, len - num_strikes)

\* the locals of the filter block after its last statement
FilterWindow(frame, num_strikes) ==
    LET spot == frame[1]["underlying"]
        unique == Sorted(Range(Column(frame, "strike")))
        atm == AtmStrike(unique, spot)
        idx == IndexOf(unique, atm)
        each_side == StrikesEachSide(num_strikes)
        s0 == InitialStart(idx, each_side)
        e0 == InitialEnd(Len(unique), idx, each_side)
        s1 == IF s0 = 0 THEN s0
              ELSE IF e0 = Len(unique) THEN CorrectedStart(Len(unique), num_strikes)
              ELSE s0
        e1 == IF s0 = 0 THEN CorrectedEnd(Len(unique), num_strikes) ELSE e0
    IN [unique_strikes |-> unique, atm_index |-> idx,
        start_idx |-> s1, end_idx |-> e1,
        filtered_strikes |-> Slice(unique, s1, e1)]

\* the mask taken on one side only
IsinCalls(frame, strikes) ==
    SelectSeq(frame, LAMBDA r : r["strike"] \in Range(strikes) /\ r["type"] = "CE")

\* df[df['strike'].isin(filtered_strikes)]
Isin(frame, strikes) == SelectSeq(frame, LAMBDA r : r["strike"] \in Range(strikes))

(***************************************************************************)
(* Metrics and chart series.                                               *)
(***************************************************************************)
OfType(frame, type) == SelectSeq(frame, LAMBDA r : r["type"] = type)

\* sort_values('strike'): ascending by strike; rows of equal strike keep
\* their order (the insertion sort numpy uses for short arrays)
RECURSIVE SortValues(_)
SortValues(frame) ==
    IF frame = <<>> THEN <<>>
    ELSE LET init == SortValues(SubSeq(frame, 1, Len(frame) - 1))
             last == frame[Len(frame)]
             k == Cardinality({i \in DOMAIN init : init[i]["strike"] <= last["strike"]})
         IN SubSeq(init, 1, k) \o <<last>> \o SubSeq(init, k + 1, Len(init))

\* a / b as an exact ratio
Ratio(a, b) == [num |-> a, den |-> b]

\* the division without its guard
PcrUnguarded(total_pe_oi, total_ce_oi) == Ratio(total_pe_oi, total_ce_oi)

\* pcr = total_pe_oi / total_ce_oi if total_ce_oi > 0 else 0
Pcr(total_pe_oi, total_ce_oi) ==
    IF total_ce_oi > 0 THEN Ratio(total_pe_oi, total_ce_oi) ELSE Ratio(0, 1)

\* atm_strike = min(df['strike'].unique(), key=...): unique() keeps the
\* order of first appearance, it does not sort
MetricsAtm(frame) == AtmStrike(Unique(Column(frame, "strike")), frame[1]["underlying"])

Metrics(frame) ==
    LET total_ce_oi == SumSeq(Column(OfType(frame, "CE"), "oi"))
        total_pe_oi == SumSeq(Column(OfType(frame, "PE"), "oi"))
    IN [spot |-> frame[1]["underlying"],
        atm |-> MetricsAtm(frame),
        total_ce |-> total_ce_oi,
        total_pe |-> total_pe_oi,
        pcr |-> Pcr(total_pe_oi, total_ce_oi)]

Nifty50Key == "NSE_INDEX|Nifty 50"
BankNiftyKey == "NSE_INDEX|Nifty Bank"

\* "NIFTY 50" if "Nifty 50" in instrument_key else "BANKNIFTY"
InstrumentName(instrument_key) ==
    IF instrument_key = Nifty50Key THEN "NIFTY 50" ELSE "BANKNIFTY"

\* datetime.strptime(expiry_date, '%Y-%m-%d').strftime('%d %b %Y') on the
\* expiry strings of the model; a string outside the table raises ValueError
ExpiryTable == [e \in {"2024-01-25"} |-> "25 Jan 2024"]

Chart(frame, instrument_key, expiry_date) ==
    LET ce_df == SortValues(OfType(frame, "CE"))
        pe_df == SortValues(OfType(frame, "PE"))
    IN [ce_strikes |-> Column(ce_df, "strike"), ce_oi |-> Column(ce_df, "oi"),
        pe_strikes |-> Column(pe_df, "strike"), pe_oi |-> Column(pe_df, "oi"),
        instrument |-> InstrumentName(instrument_key),
        expiry_display |-> ExpiryTable[expiry_date]]

\* df.to_csv(index=False): the header line, then one line per record
ToCsv(frame) ==
    [header |-> <<"strike", "type", "oi", "ltp", "underlying">>,
     lines |-> [i \in DOMAIN frame |->
                   <<frame[i]["strike"], frame[i]["type"], frame[i]["oi"],
                     frame[i]["ltp"], frame[i]["underlying"]>>]]

(***************************************************************************)
(* Responses.                                                              *)
(***************************************************************************)
Failure(message) == [success |-> FALSE, error |-> message]

\* the exception leaves the handler: the framework's 500 page
Uncaught(message) == [status |-> 500, body |-> "Internal Server Error"]

\* except Exception as e: return jsonify({'success': False, 'error': str(e)})
Caught(message) == Failure(message)

Success(frame, instrument_key, expiry_date) ==
    [success |-> TRUE,
     metrics |-> Metrics(frame),
     chart |-> Chart(frame, instrument_key, expiry_date),
     df |-> frame,
     csv |-> ToCsv(frame)]

ApiErrorText == [c \in {401, 500} |-> IF c = 401 THEN "API Error: 401" ELSE "API Error: 500"]

\* all([token, instrument_key, expiry_date]); a missing key reads as None,
\* which like '' is falsy
AllParameters(data) ==
    /\ Get(data, "token", "") # ""
    /\ Get(data, "instrument", "") # ""
    /\ Get(data, "expiry", "") # ""

\* df.empty
Empty(frame) == frame = <<>>

(***************************************************************************)
(* The handler: its locals (where it got that far) and its response.       *)
(***************************************************************************)
NoLocals ==
    [rows |-> <<>>, filter_ran |-> FALSE, unique_strikes |-> <<>>, atm_index |-> 0,
     start_idx |-> 0, end_idx |-> 0, filtered_strikes |-> <<>>, df |-> <<>>]

HandlerResult(data, up) ==
    LET num_strikes == Get(data, "strikes", DefaultStrikes)
        extracted == ExtractRows(up.body["data"])
        frame == extracted.rows
        ran == ShouldFilter(frame, num_strikes)
        win == FilterWindow(frame, num_strikes)
        kept == IF ran THEN Isin(frame, win.filtered_strikes) ELSE frame
        locals == IF ran
                  THEN [rows |-> frame, filter_ran |-> TRUE,
                        unique_strikes |-> win.unique_strikes,
                        atm_index |-> win.atm_index,
                        start_idx |-> win.start_idx, end_idx |-> win.end_idx,
                        filtered_strikes |-> win.filtered_strikes, df |-> kept]
                  ELSE [NoLocals EXCEPT !.rows = frame, !.df = frame]
    IN IF ~AllParameters(data)
       THEN [locals |-> NoLocals, response |-> Failure("Missing parameters")]
       ELSE IF up.transport # "ok"
       THEN [locals |-> NoLocals, response |-> Caught(up.transport)]
       ELSE IF up.status_code # 200
       THEN [locals |-> NoLocals, response |-> Failure(ApiErrorText[up.status_code])]
       ELSE IF Get(up.body, "status", "") # "success"
       THEN [locals |-> NoLocals, response |-> Failure("No data available")]
       ELSE IF "data" \notin DOMAIN up.body
       THEN [locals |-> NoLocals, response |-> Caught("'data'")]
       ELSE IF extracted.error # ""
       THEN [locals |-> NoLocals, response |-> Caught(extracted.error)]
       ELSE IF Empty(kept)
       THEN [locals |-> locals, response |-> Failure("No data after filtering")]
       ELSE IF data["expiry"] \notin DOMAIN ExpiryTable
       THEN [locals |-> locals, response |-> Caught("time data does not match format '%Y-%m-%d'")]
       ELSE [locals |-> locals,
             response |-> Success(kept, data["instrument"], data["expiry"])]

(***************************************************************************)
(* The explored requests and upstream answers.                             *)
(***************************************************************************)
\* a dict with the given keys
Dict(keys, values) == [k \in keys |-> values[k]]

ValidRequest(num_strikes) ==
    [token |-> "tok", instrument |-> Nifty50Key, expiry |-> "2024-01-25",
     strikes |-> num_strikes]

OkUpstream(data) ==
    [transport |-> "ok", status_code |-> 200,
     body |-> [status |-> "success", data |-> data]]

\* the shapes of a call_options / put_options value; shape 1 is an absent key
SideShapes == 1..8

SideValue(shape, oi, ltp) ==
    CASE shape = 2 -> EmptyDict
      [] shape = 3 -> [market_data |-> EmptyDict]
      [] shape = 4 -> [market_data |-> [oi |-> oi, ltp |-> ltp]]
      [] shape = 5 -> [market_data |-> [ltp |-> ltp]]
      [] shape = 6 -> [market_data |-> [oi |-> oi]]
      [] shape = 7 -> [market_data |-> [volume |-> 1]]
      [] OTHER -> [market_data |-> [oi |-> 0, ltp |-> ltp]]

\* one raw strike entry; has_strike / has_spot say whether the key is present
Item(has_strike, strike, has_spot, spot, call_shape, put_shape) ==
    Dict((IF has_strike THEN {"strike_price"} ELSE {})
           \cup (IF has_spot THEN {"underlying_spot_price"} ELSE {})
           \cup (IF call_shape # 1 THEN {"call_options"} ELSE {})
           \cup (IF put_shape # 1 THEN {"put_options"} ELSE {}),
         [strike_price |-> strike, underlying_spot_price |-> spot,
          call_options |-> SideValue(call_shape, 1000, 5),
          put_options |-> SideValue(put_shape, 500, 7)])

\* sequences without repetition over S, of length at most n
InjectiveSeqs(S, n) ==
    {s \in UNION {[1..k -> S] : k \in 0..n} :
        \A i, j \in DOMAIN s : i # j => s[i] # s[j]}

Reverse(s) == [i \in DOMAIN s |-> s[Len(s) + 1 - i]]

\* the strike orders of the explored chains: every order of up to
\* MaxShuffled strikes, and every larger strike set ascending and descending
StrikeOrders ==
    InjectiveSeqs(StrikeValues, MaxShuffled)
      \cup {Sorted(S) : S \in SUBSET StrikeValues}
      \cup {Reverse(Sorted(S)) : S \in SUBSET StrikeValues}

\* which sides the entries of a chain populate
Patterns == {"both", "mixed", "puts"}

ShapesOf(pattern, strike) ==
    LET i == ((strike - 100) \div 50) % 4
    IN CASE pattern = "both" -> <<4, 4>>
         [] pattern = "puts" -> <<1, 4>>
         [] OTHER -> <<<<4, 1>>, <<1, 4>>, <<4, 4>>, <<3, 1>>>>[i + 1]

\* chains of complete entries with distinct strikes, in any order
ChainData(strikes, spot, pattern) ==
    [i \in DOMAIN strikes |->
        Item(TRUE, strikes[i], TRUE, spot,
             ShapesOf(pattern, strikes[i])[1], ShapesOf(pattern, strikes[i])[2])]

InitChain ==
    \E strikes \in StrikeOrders, spot \in SpotValues,
       pattern \in Patterns, n \in NValues :
        /\ request_json = ValidRequest(n)
        /\ upstream = OkUpstream(ChainData(strikes, spot, pattern))

\* one entry of any shape, possibly with missing keys, among complete entries
InitEntry ==
    \E plain \in InjectiveSeqs({150, 200}, MaxPlain),
       has_strike \in BOOLEAN, has_spot \in BOOLEAN,
       call_shape \in SideShapes, put_shape \in {1, 3, 4, 5},
       n \in 0..2 :
        \E at \in 0..Len(plain) :
            LET entry == Item(has_strike, 100, has_spot, 125, call_shape, put_shape)
                others == ChainData(plain, 125, "both")
            IN /\ request_json = ValidRequest(n)
               /\ upstream = OkUpstream(SubSeq(others, 1, at) \o <<entry>>
                                          \o SubSeq(others, at + 1, Len(others)))

\* requests and upstream answers that take the early returns
InitErrors ==
    \E keys \in SUBSET {"token", "instrument", "expiry", "strikes"},
       token \in {"tok", ""}, instrument \in {Nifty50Key, BankNiftyKey},
       expiry \in {"2024-01-25", "25-01-2024"},
       transport \in {"ok", "ConnectTimeout"}, status_code \in {200, 401, 500},
       body_keys \in SUBSET {"status", "data"}, status \in {"success", "error"},
       data \in {<<>>, ChainData(<<100>>, 125, "both")} :
        /\ request_json = Dict(keys, [token |-> token, instrument |-> instrument,
                                      expiry |-> expiry, strikes |-> 1])
        /\ upstream = [transport |-> transport, status_code |-> status_code,
                       body |-> Dict(body_keys, [status |-> status, data |-> data])]

Init ==
    /\ pc = "received"
    /\ InitChain \/ InitEntry \/ InitErrors
    /\ rows = NoLocals.rows
    /\ filter_ran = NoLocals.filter_ran
    /\ unique_strikes = NoLocals.unique_strikes
    /\ atm_index = NoLocals.atm_index
    /\ start_idx = NoLocals.start_idx
    /\ end_idx = NoLocals.end_idx
    /\ filtered_strikes = NoLocals.filtered_strikes
    /\ df = NoLocals.df
    /\ response = Failure("")

\* POST /api/option-chain: the whole handler, from request to response
GetOptionChain ==
    /\ pc = "received"
    /\ pc' = "responded"
    /\ LET r == HandlerResult(request_json, upstream)
       IN /\ rows' = r.locals.rows
          /\ filter_ran' = r.locals.filter_ran
          /\ unique_strikes' = r.locals.unique_strikes
          /\ atm_index' = r.locals.atm_index
          /\ start_idx' = r.locals.start_idx
          /\ end_idx' = r.locals.end_idx
          /\ filtered_strikes' = r.locals.filtered_strikes
          /\ df' = r.locals.df
          /\ response' = r.response
    /\ UNCHANGED <<request_json, upstream>>

Next == GetOptionChain

Spec == Init /\ [][Next]_vars

(***************************************************************************)
(* State functions used by the properties.                                 *)
(***************************************************************************)
Responded == pc = "responded"

\* N, the requested window size
RequestedN == IF "strikes" \in DOMAIN request_json THEN request_json["strikes"] ELSE DefaultStrikes

Half == RequestedN \div 2

NumDistinct == Len(unique_strikes)

\* the initial window [atm_index - Half, atm_index + Half] leaves the list
ClippedLeft == atm_index - Half < 0

ClippedRight == atm_index + Half > NumDistinct - 1

Smaller(a, b) == IF a < b THEN a ELSE b

\* the strikes at 0-based indices from..to of the sorted distinct strikes
StrikesAt(from, to) == [i \in 1..(to - from + 1) |-> unique_strikes[from + i]]

\* the handler got past the upstream checks and read api_data['data']
ReadData ==
    /\ Responded
    /\ {"token", "instrument", "expiry"} \subseteq DOMAIN request_json
    /\ request_json["token"] # "" /\ request_json["instrument"] # ""
    /\ request_json["expiry"] # ""
    /\ upstream.transport = "ok" /\ upstream.status_code = 200
    /\ {"status", "data"} \subseteq DOMAIN upstream.body
    /\ upstream.body["status"] = "success"

Entries == upstream.body["data"]

(***************************************************************************)
(* C1: for N > 0 and a non-empty record set, unless the initial window is  *)
(* clipped at both edges at once, the selected window holds exactly        *)
(* min(N, number of distinct strikes) strikes, and so never more than N.   *)
(* The handler selects N + 1 strikes for an even N and an interior ATM.    *)
(***************************************************************************)
C1_WindowHoldsMinNStrikes ==
    (filter_ran /\ ~(ClippedLeft /\ ClippedRight))
        => /\ Len(filtered_strikes) = Smaller(RequestedN, NumDistinct)
           /\ Len(filtered_strikes) <= RequestedN

(***************************************************************************)
(* C2: the ATM strike of the metrics minimises |strike - spot| over the    *)
(* distinct strikes of the snapshot, is the smaller strike of a tie, and   *)
(* is the strike the filter centred on.  The handler reports the larger    *)
(* strike of a tie when its record comes first.                            *)
(***************************************************************************)
C2_ReportedAtmIsClosestSmallest ==
    (Responded /\ "metrics" \in DOMAIN response)
        => LET atm == response["metrics"]["atm"]
               spot == rows[1]["underlying"]
               strikes == {rows[i]["strike"] : i \in DOMAIN rows}
           IN /\ atm \in strikes
              /\ \A x \in strikes : Abs(atm - spot) <= Abs(x - spot)
              /\ \A x \in strikes : Abs(x - spot) = Abs(atm - spot) => atm <= x
              /\ filter_ran => atm = unique_strikes[atm_index + 1]

(***************************************************************************)
(* C3 as stated: whenever the initial window needs no clipping, the        *)
(* selected strikes are those at indices atm_index - Half through          *)
(* atm_index + Half.                                                       *)
(***************************************************************************)
C3_UnclippedWindowIsSymmetric ==
    (filter_ran /\ ~ClippedLeft /\ ~ClippedRight)
        => /\ start_idx = atm_index - Half
           /\ end_idx = atm_index + Half + 1
           /\ filtered_strikes = StrikesAt(atm_index - Half, atm_index + Half)

\* the initial window touches neither end of the list
StrictlyInside == atm_index - Half > 0 /\ atm_index + Half < NumDistinct - 1

(***************************************************************************)
(* C3 amended: when the initial window lies strictly inside the list, or   *)
(* needs no clipping and N is odd, the selected strikes are those at       *)
(* indices atm_index - Half through atm_index + Half; strikes 100..300     *)
(* with spot 204 and N = 2 give the window 150, 200, 250.                  *)
(***************************************************************************)
C3_InsideWindowIsSymmetric ==
    /\ (filter_ran /\ (StrictlyInside
                         \/ (RequestedN % 2 = 1 /\ ~ClippedLeft /\ ~ClippedRight)))
          => /\ start_idx = atm_index - Half
             /\ end_idx = atm_index + Half + 1
             /\ filtered_strikes = StrikesAt(atm_index - Half, atm_index + Half)
    /\ (filter_ran /\ unique_strikes = <<100, 150, 200, 250, 300>>
          /\ rows[1]["underlying"] = 204 /\ RequestedN = 2)
          => atm_index = 2 /\ filtered_strikes = <<150, 200, 250>>

C3_Witness ==
    /\ filter_ran /\ RequestedN = 2
    /\ unique_strikes = <<100, 150, 200, 250, 300>>
    /\ rows[1]["underlying"] = 204
    /\ filtered_strikes = <<150, 200, 250>>

(***************************************************************************)
(* C4: when the window start is clipped to index 0 the selected strikes    *)
(* are the first min(N, len) sorted distinct strikes; when only the end is *)
(* clipped they are the last min(N, len); either way the window holds N    *)
(* strikes whenever N distinct strikes exist.                              *)
(***************************************************************************)
C4_EdgeCorrection ==
    filter_ran =>
        LET k == Smaller(RequestedN, NumDistinct)
        IN /\ ClippedLeft => filtered_strikes = StrikesAt(0, k - 1)
           /\ (~ClippedLeft /\ ClippedRight)
                 => filtered_strikes = StrikesAt(NumDistinct - k, NumDistinct - 1)
           /\ ((ClippedLeft \/ ClippedRight) /\ NumDistinct >= RequestedN)
                 => Len(filtered_strikes) = RequestedN

C4_Witness ==
    /\ filter_ran /\ ~ClippedLeft /\ ClippedRight
    /\ NumDistinct > RequestedN /\ start_idx > 0
    /\ Len(filtered_strikes) = RequestedN

(***************************************************************************)
(* C5: filtering is the identity on the record list when N <= 0 or when N  *)
(* is at least the number of distinct strikes: same records, same order.   *)
(***************************************************************************)
C5_NoNarrowingIsIdentity ==
    (Responded /\ (RequestedN <= 0
                     \/ RequestedN >= Cardinality({rows[i]["strike"] : i \in DOMAIN rows})))
        => df = rows

C5_Witness ==
    /\ filter_ran /\ RequestedN >= NumDistinct /\ NumDistinct >= 3
    /\ atm_index > 0 /\ atm_index < NumDistinct - 1
    /\ Len(rows) > NumDistinct /\ df = rows

\* the sum of 'oi' over the records of one side
RECURSIVE OiTotal(_, _)
OiTotal(frame, type) ==
    IF frame = <<>> THEN 0
    ELSE (IF Head(frame)["type"] = type THEN Head(frame)["oi"] ELSE 0)
           + OiTotal(Tail(frame), type)

(***************************************************************************)
(* C6: the reported PCR is 0 whenever the total CE open interest of the    *)
(* filtered records is 0, whatever the total PE open interest, and is      *)
(* otherwise total PE OI over total CE OI; no division by zero happens.    *)
(***************************************************************************)
C6_PcrIsZeroWithoutCallOi ==
    (Responded /\ "metrics" \in DOMAIN response)
        => LET m == response["metrics"]
               ce == OiTotal(df, "CE")
               pe == OiTotal(df, "PE")
           IN /\ m["total_ce"] = ce /\ m["total_pe"] = pe
              /\ m["pcr"]["den"] # 0
              /\ ce = 0 => m["pcr"]["num"] = 0
              /\ ce # 0 => m["pcr"]["num"] * ce = pe * m["pcr"]["den"]

C6_Witness ==
    /\ Responded /\ "metrics" \in DOMAIN response
    /\ response["metrics"]["total_ce"] = 0 /\ response["metrics"]["total_pe"] > 0
    /\ response["metrics"]["pcr"]["num"] = 0

\* the positions of the extracted records whose strike is in the window
InWindow == {i \in DOMAIN rows : \E k \in DOMAIN filtered_strikes :
                                    filtered_strikes[k] = rows[i]["strike"]}

(***************************************************************************)
(* C7: after filtering with N > 0 the surviving records are exactly the    *)
(* extracted records whose strike is in the selected window, CE and PE     *)
(* alike, with their fields and in their relative order.                   *)
(***************************************************************************)
C7_SurvivorsAreWindowRecords ==
    filter_ran =>
        /\ Len(df) = Cardinality(InWindow)
        /\ \A k \in DOMAIN df :
              \E i \in InWindow : /\ Cardinality({j \in InWindow : j <= i}) = k
                                  /\ df[k] = rows[i]

C7_Witness ==
    /\ filter_ran /\ Len(df) < Len(rows) /\ Len(df) >= 4
    /\ \E k \in DOMAIN df : df[k]["type"] = "CE"
    /\ \E k \in DOMAIN df : df[k]["type"] = "PE"

\* a side of an entry is populated: a non-empty market_data block
Populated(item, side) ==
    /\ side \in DOMAIN item
    /\ "market_data" \in DOMAIN item[side]
    /\ item[side]["market_data"] # <<>>

FieldOrZero(d, k) == IF k \in DOMAIN d THEN d[k] ELSE 0

SideType(side) == IF side = "call_options" THEN "CE" ELSE "PE"

KeyErrors == {"'strike_price'", "'underlying_spot_price'", "'oi'", "'ltp'"}

\* every populated side of every entry has its record, zeros for missing fields
RecordsWithZeroDefaults ==
    \A i \in DOMAIN Entries : \A side \in {"call_options", "put_options"} :
        Populated(Entries[i], side) =>
            \E k \in DOMAIN rows :
                /\ rows[k]["type"] = SideType(side)
                /\ rows[k]["strike"] = FieldOrZero(Entries[i], "strike_price")
                /\ rows[k]["underlying"] = FieldOrZero(Entries[i], "underlying_spot_price")
                /\ rows[k]["oi"] = FieldOrZero(Entries[i][side]["market_data"], "oi")
                /\ rows[k]["ltp"] = FieldOrZero(Entries[i][side]["market_data"], "ltp")

NotAKeyError == "error" \in DOMAIN response => response["error"] \notin KeyErrors

(***************************************************************************)
(* C8 as stated: a missing 'oi', 'ltp', 'strike_price' or                  *)
(* 'underlying_spot_price' defaults to zero and never fails the request;   *)
(* the entry's records are produced with 0 for the missing value.          *)
(***************************************************************************)
C8_MissingNumericFieldIsZero ==
    ReadData => NotAKeyError /\ RecordsWithZeroDefaults

\* the entries that lack 'strike_price' or 'underlying_spot_price'
Keyless == {i \in DOMAIN Entries :
               ~({"strike_price", "underlying_spot_price"} \subseteq DOMAIN Entries[i])}

(***************************************************************************)
(* C8 amended: a missing 'oi' or 'ltp' inside a non-empty market_data      *)
(* block defaults to zero and does not fail the request; a missing         *)
(* 'strike_price' or 'underlying_spot_price' raises KeyError, and the      *)
(* request ends in the failure response naming the first such key.         *)
(***************************************************************************)
C8_MissingOiLtpIsZero ==
    ReadData =>
        IF Keyless = {}
        THEN NotAKeyError /\ RecordsWithZeroDefaults
        ELSE LET first == Entries[CHOOSE i \in Keyless : \A j \in Keyless : i <= j]
             IN response = [success |-> FALSE,
                            error |-> IF "strike_price" \notin DOMAIN first
                                      THEN "'strike_price'"
                                      ELSE "'underlying_spot_price'"]

C8_Witness ==
    /\ ReadData /\ Keyless = {}
    /\ \E i \in DOMAIN Entries :
          /\ Populated(Entries[i], "call_options")
          /\ "oi" \notin DOMAIN Entries[i]["call_options"]["market_data"]
          /\ "ltp" \in DOMAIN Entries[i]["call_options"]["market_data"]
    /\ \E k \in DOMAIN rows : rows[k]["type"] = "CE" /\ rows[k]["oi"] = 0
    /\ "metrics" \in DOMAIN response

SuccessKeys == {"success", "metrics", "chart", "df", "csv"}

FailureKeys == {"success", "error"}

\* the request meets one of the conditions that must give the failure form
FailureCause ==
    \/ \E k \in {"token", "instrument", "expiry"} :
          k \notin DOMAIN request_json \/ request_json[k] = ""
    \/ upstream.transport # "ok"
    \/ upstream.status_code # 200
    \/ "status" \notin DOMAIN upstream.body
    \/ upstream.body["status"] # "success"
    \/ "data" \notin DOMAIN upstream.body
    \/ Keyless # {}
    \/ df = <<>>
    \/ request_json["expiry"] # "2024-01-25"

(***************************************************************************)
(* C9: every request ends in one of two response forms: success = true     *)
(* with metrics, chart series and a non-empty record list, or success =    *)
(* false with one error message and nothing else.  A missing parameter, a  *)
(* non-200 status, a non-success upstream status, an empty record set      *)
(* after filtering and any raised exception give the failure form.         *)
(***************************************************************************)
C9_TwoResponseForms ==
    Responded =>
        /\ \/ /\ DOMAIN response = SuccessKeys
              /\ response["success"] = TRUE
              /\ response["df"] # <<>>
           \/ /\ DOMAIN response = FailureKeys
              /\ response["success"] = FALSE
        /\ FailureCause => DOMAIN response = FailureKeys

C9_Witness ==
    /\ ReadData /\ Keyless = {} /\ df # <<>>
    /\ request_json["expiry"] = "25-01-2024"
    /\ DOMAIN response = FailureKeys /\ response["success"] = FALSE

\* the number of populated sides of entry i
Sides(i) ==
    (IF Populated(Entries[i], "call_options") THEN 1 ELSE 0)
      + (IF Populated(Entries[i], "put_options") THEN 1 ELSE 0)

\* the number of populated sides of the entries before entry i
RECURSIVE SidesBefore(_)
SidesBefore(i) == IF i <= 1 THEN 0 ELSE SidesBefore(i - 1) + Sides(i - 1)

RecordOf(k, i, type) ==
    /\ k \in DOMAIN rows
    /\ rows[k]["type"] = type
    /\ rows[k]["strike"] = Entries[i]["strike_price"]
    /\ rows[k]["underlying"] = Entries[i]["underlying_spot_price"]

(***************************************************************************)
(* C10: the extractor gives each entry one CE record iff its call side is  *)
(* populated and one PE record iff its put side is, in entry order with CE *)
(* before PE, each with the entry's strike and spot; the number of records *)
(* is the number of populated sides.                                       *)
(***************************************************************************)
C10_ExtractorRows ==
    (ReadData /\ Keyless = {}) =>
        /\ Len(rows) = SidesBefore(Len(Entries) + 1)
        /\ \A i \in DOMAIN Entries :
              /\ Populated(Entries[i], "call_options")
                    => RecordOf(SidesBefore(i) + 1, i, "CE")
              /\ Populated(Entries[i], "put_options")
                    => RecordOf(SidesBefore(i) + Sides(i), i, "PE")

C10_Witness ==
    /\ ReadData /\ Keyless = {} /\ rows # <<>>
    /\ \E i \in DOMAIN Entries : Sides(i) = 0
    /\ \E i \in DOMAIN Entries : Sides(i) = 1
    /\ \E i \in DOMAIN Entries : Sides(i) = 2

(***************************************************************************)
(* C11: for a non-empty record list and N > 0 the selected window is a     *)
(* contiguous slice of the sorted distinct strikes that contains the ATM   *)
(* strike, also after either edge correction; so filtering never empties a *)
(* non-empty record list, and 'No data after filtering' is returned only   *)
(* when the extractor produced no records.                                 *)
(***************************************************************************)
C11_WindowContainsAtm ==
    /\ filter_ran =>
          /\ 0 <= start_idx /\ start_idx <= atm_index
          /\ atm_index < end_idx /\ end_idx <= NumDistinct
          /\ filtered_strikes = StrikesAt(start_idx, end_idx - 1)
          /\ \E k \in DOMAIN filtered_strikes :
                filtered_strikes[k] = unique_strikes[atm_index + 1]
          /\ \E k \in DOMAIN df : df[k]["strike"] = unique_strikes[atm_index + 1]
    /\ (Responded /\ rows # <<>>) => df # <<>>
    /\ (Responded /\ "error" \in DOMAIN response
          /\ response["error"] = "No data after filtering") => rows = <<>>

C11_Witness ==
    /\ filter_ran /\ atm_index = Half /\ RequestedN % 2 = 0
    /\ NumDistinct > RequestedN
    /\ start_idx = 0 /\ end_idx = RequestedN
    /\ \E k \in DOMAIN df : df[k]["strike"] = unique_strikes[atm_index + 1]

====
